---------------------------- MODULE Spec2Model ----------------------------
(***************************************************************************)
(* A model of ProductionReporter (Producion_Report_Tool.py): the batch run *)
(* select_file -> read_excel -> process_input_data -> save_reports, with   *)
(* the data transformation computed as the pandas calls compute it on      *)
(* small tables.                                                           *)
(*                                                                         *)
(* Dates are day numbers counted from Monday 2024-01-01 (day 0); pd.NaT is *)
(* NaT.  A cell of the raw table is a record [t, s, n]: t is the cell's    *)
(* type ("nan", "str", "num", "date"), s its text, n its number or day.    *)
(* A fraction (a mean) is a pair <<numerator, denominator>>.               *)
(***************************************************************************)
EXTENDS Integers, Sequences, FiniteSets, TLC

VARIABLES
    pc,              \* where run() stands: select, read, process, save, done
    file,            \* the file the user will pick: what is on disk
    raises,          \* the library calls that raise on this run's data
    input_df,        \* the table read_excel returned
    results,         \* the local dict results of process_input_data
    processed_data,  \* what process_input_data returned: "None" or "results"
    messages,        \* message boxes and printed warnings, in order
    sheets,          \* titles of the workbook's sheets, in creation order
    charts,          \* the charts added to the workbook
    save_attempts,   \* number of calls of wb.save
    saved,           \* the sheets of the file written by wb.save
    col_letters,     \* argument of excel_column_to_index (column mapper runs)
    col_index,       \* its result
    date_cells,      \* cells still to be given to safe_date_parse (date parser runs)
    date_results     \* the cells given to it with what it returned, in order

vars == <<pc, file, raises, input_df, results, processed_data, messages,
          sheets, charts, save_attempts, saved, col_letters, col_index,
          date_cells, date_results>>

dateVars == <<date_cells, date_results>>

-----------------------------------------------------------------------------
(* Bounds of the model *)

MaxRows == 2        \* rows of the input table
MaxRaises == 1      \* library calls that raise in one run
MaxLabelLen == 2    \* characters of a column label
MaxCells == 2       \* cells given to safe_date_parse in one run

-----------------------------------------------------------------------------
(* Cells and small helpers *)

NaT == -1

NaN == [t |-> "nan", s |-> "", n |-> 0]
Text(s) == [t |-> "str", s |-> s, n |-> 0]
Number(n) == [t |-> "num", s |-> "", n |-> n]
Timestamp(d) == [t |-> "date", s |-> "", n |-> d]

isna(c) == c.t = "nan"

Message(kind, title) == [kind |-> kind, title |-> title]

\* the function f with every value computed (a table held in memory)
Table(f) == f @@ <<>>

RECURSIVE SeqToSet(_)
SeqToSet(s) == IF s = <<>> THEN {} ELSE {Head(s)} \cup SeqToSet(Tail(s))

RECURSIVE Concat(_)
Concat(ss) == IF ss = <<>> THEN <<>> ELSE Head(ss) \o Concat(Tail(ss))

\* Python string order on the strings the tables hold (process tags, names).
StringOrder == <<"Final", "Key", "QC", "a", "b">>
StrRank(s) == CHOOSE k \in 1..Len(StringOrder) : StringOrder[k] = s
StrLess(x, y) == StrRank(x) < StrRank(y)

-----------------------------------------------------------------------------
(* excel_column_to_index *)

UpperLetters == <<"A","B","C","D","E","F","G","H","I","J","K","L","M",
                  "N","O","P","Q","R","S","T","U","V","W","X","Y","Z">>
LowerLetters == <<"a","b","c","d","e","f","g","h","i","j","k","l","m",
                  "n","o","p","q","r","s","t","u","v","w","x","y","z">>

isalpha(char) == \E k \in 1..26 : UpperLetters[k] = char \/ LowerLetters[k] = char

upper(char) ==
    IF \E k \in 1..26 : LowerLetters[k] = char
    THEN UpperLetters[CHOOSE k \in 1..26 : LowerLetters[k] = char]
    ELSE char

\* ord(char) - ord('A') for an upper-case letter
ord_minus_A(char) == (CHOOSE k \in 1..26 : UpperLetters[k] = char) - 1

\* a variant that counts the letters from 0: plain base 26
RECURSIVE column_loop_from_zero(_, _)
column_loop_from_zero(chars, index) ==
    IF chars = <<>> THEN [raised |-> FALSE, index |-> index + 1]
    ELSE IF ~isalpha(Head(chars)) THEN [raised |-> TRUE, index |-> 0]
    ELSE column_loop_from_zero(Tail(chars), index * 26 + ord_minus_A(upper(Head(chars))))

\* the for loop of lines 53-56: the index so far, or the ValueError
RECURSIVE column_loop(_, _)
column_loop(chars, index) ==
    IF chars = <<>> THEN [raised |-> FALSE, index |-> index]
    ELSE IF ~isalpha(Head(chars)) THEN [raised |-> TRUE, index |-> 0]
    ELSE column_loop(Tail(chars), index * 26 + ord_minus_A(upper(Head(chars))) + 1)

\* [isNone, index]: None (after the error box) or the zero-based index
excel_column_to_index(letters) ==
    LET r == column_loop(letters, 0)
    IN  IF r.raised THEN [isNone |-> TRUE, index |-> 0]
        ELSE [isNone |-> FALSE, index |-> r.index - 1]

-----------------------------------------------------------------------------
(* safe_date_parse *)

\* str(date_str).strip().upper() on the texts the model's cells hold
strip_upper(s) ==
    CASE s = "wip" -> "WIP"
      [] s = " n/a " -> "N/A"
      [] s = "na" -> "NA"
      [] s = "  " -> ""
      [] s = " WIP " -> "WIP"
      [] OTHER -> s

Sentinels == {"WIP", "NA", "N/A", ""}

DateFormats == <<"%Y-%m-%d", "%m/%d/%Y", "%d-%m-%Y", "%Y/%m/%d">>

\* pd.to_datetime(text, format=fmt): the day, or NaT when it raises
to_datetime_format(s, fmt) ==
    CASE fmt = "%Y-%m-%d" /\ s = "2024-01-03" -> 2
      [] fmt = "%m/%d/%Y" /\ s = "01/10/2024" -> 9
      [] fmt = "%d-%m-%Y" /\ s = "03-02-2024" -> 33
      [] fmt = "%Y/%m/%d" /\ s = "2024/02/03" -> 33
      [] OTHER -> NaT

\* 1970-01-01, the day pd.to_datetime gives a small number (nanoseconds since
\* the epoch)
EpochDay == -19723

\* pd.to_datetime(text) without a format: the day, or NaT when it raises
to_datetime_auto(s) ==
    CASE s = "Jan 3, 2024" -> 2
      [] OTHER -> NaT

RECURSIVE try_formats(_, _)
try_formats(s, fmts) ==
    IF fmts = <<>> THEN to_datetime_auto(s)
    ELSE IF to_datetime_format(s, Head(fmts)) # NaT THEN to_datetime_format(s, Head(fmts))
    ELSE try_formats(s, Tail(fmts))

\* the try body, lines 36-44: [raised, value]; a timestamp is returned by the
\* first pd.to_datetime, a number fails the four formats (it is matched as its
\* text) and is read as nanoseconds by the last call, a text that no call
\* parses leaves the body by the exception of the last call
parse_body(date_str) ==
    IF isna(date_str) THEN [raised |-> FALSE, value |-> NaT]
    ELSE IF date_str.t = "date" THEN [raised |-> FALSE, value |-> date_str.n]
    ELSE IF date_str.t = "num" THEN [raised |-> FALSE, value |-> EpochDay]
    ELSE IF strip_upper(date_str.s) \in Sentinels THEN [raised |-> FALSE, value |-> NaT]
    ELSE IF try_formats(date_str.s, DateFormats) # NaT
         THEN [raised |-> FALSE, value |-> try_formats(date_str.s, DateFormats)]
    ELSE [raised |-> TRUE, value |-> NaT]

\* a variant without the except clause: the exception leaves the function
safe_date_parse_uncaught(date_str) ==
    [value |-> parse_body(date_str).value, warned |-> FALSE,
     raised |-> parse_body(date_str).raised]

\* [value, warned, raised]: the parsed day or NaT, whether the warning was
\* printed (lines 45-47), and whether an exception left the function
safe_date_parse(date_str) ==
    [value |-> parse_body(date_str).value, warned |-> parse_body(date_str).raised,
     raised |-> FALSE]

-----------------------------------------------------------------------------
(* Calendar: day 0 is Monday 2024-01-01 *)

\* dt.to_period('W').dt.start_time: the Monday of the day's week
week_start(d) == IF d = NaT THEN NaT ELSE d - (d % 7)

MonthStarts == <<0, 31, 60, 91>>   \* 1 Jan, 1 Feb, 1 Mar, 1 Apr 2024

\* dt.to_period('M').dt.start_time: the first day of the day's month
month_start(d) ==
    IF d = NaT THEN NaT
    ELSE LET k == CHOOSE i \in 1..Len(MonthStarts) :
                    /\ MonthStarts[i] <= d
                    /\ \A j \in 1..Len(MonthStarts) : MonthStarts[j] <= d => MonthStarts[j] <= MonthStarts[i]
         IN MonthStarts[k]

\* (a - b).dt.days: NaN when either date is NaT
days_between(a, b) ==
    IF a = NaT \/ b = NaT THEN [nan |-> TRUE, v |-> 0] ELSE [nan |-> FALSE, v |-> a - b]

-----------------------------------------------------------------------------
(* The configuration in results (lines 221-233) *)

Processes == <<"Key", "QC", "Final">>

ProcessCols ==
    [Key   |-> << <<"J">>, <<"K">>, <<"L">>, <<"M">>, <<"N">> >>,
     QC    |-> << <<"U">>, <<"V">>, <<"W">>, <<"X">> >>,
     Final |-> << <<"X">>, <<"Y">>, <<"Z">>, <<"A","A">>, <<"A","B">>, <<"A","C">> >>]

ProcessNames ==
    [Key   |-> <<"Key Branch", "Outdate", "Duedate", "Indate", "Total Rec.">>,
     QC    |-> <<"QC Branch", "Outdate", "Indate", "Total Rec.">>,
     Final |-> <<"Total Rec.", "Final Person", "Outdate", "Indate", "Status", "Shipment Date">>]

\* the columns each block parses with safe_date_parse (lines 251, 277, 302)
DateCols ==
    [Key   |-> <<"Outdate", "Duedate", "Indate">>,
     QC    |-> <<"Outdate", "Indate">>,
     Final |-> <<"Outdate", "Indate", "Shipment Date">>]

\* the dropna subset's name column (lines 254, 280, 305)
BranchCol == [Key |-> "Key Branch", QC |-> "QC Branch", Final |-> "Final Person"]

\* a variant that takes Indate for the Final process too
AnchorCol_indate == [Key |-> "Indate", QC |-> "Indate", Final |-> "Indate"]

\* the date the derived columns are computed from (lines 256-259, 282-284, 307-309)
AnchorCol == [Key |-> "Indate", QC |-> "Indate", Final |-> "Shipment Date"]

\* pd.DataFrame() and a table with columns and rows
EmptyDataFrame == [isNone |-> FALSE, columns |-> <<>>, rows |-> <<>>]
NoneDf == [isNone |-> TRUE, columns |-> <<>>, rows |-> <<>>]
DataFrame(columns, rows) == [isNone |-> FALSE, columns |-> columns, rows |-> rows]

\* df is not None and not df.empty
has_data(df) == ~df.isNone /\ df.rows # <<>>

-----------------------------------------------------------------------------
(* Process extraction: lines 242-316 *)

\* [excel_column_to_index(col) for col in results[p]['cols']], for every process
ResolvedCols ==
    [p \in {"Key", "QC", "Final"} |->
        [k \in 1..Len(ProcessCols[p]) |-> excel_column_to_index(ProcessCols[p][k])]]

resolved_cols(p) == ResolvedCols[p]

invalid_cols(p) == \E k \in 1..Len(ProcessCols[p]) : resolved_cols(p)[k].isNone

\* input_df.iloc[:, cols] raises IndexError for a position past the last column
iloc_raises(df, p) ==
    \E k \in 1..Len(ProcessCols[p]) : resolved_cols(p)[k].index >= df.ncols

\* one row of input_df.iloc[:, cols] with columns = results[p]['names']
iloc_row(row, p) ==
    Table([c \in SeqToSet(ProcessNames[p]) |->
        row[resolved_cols(p)[CHOOSE k \in 1..Len(ProcessNames[p]) : ProcessNames[p][k] = c].index]])

\* df[date_col] = df[date_col].apply(self.safe_date_parse)
parse_dates(r, p) ==
    Table([c \in DOMAIN r |->
        IF c \in SeqToSet(DateCols[p]) THEN safe_date_parse(r[c]).value ELSE r[c]])

\* warnings safe_date_parse prints for the cells of one row
date_warnings(r, p) ==
    Cardinality({c \in SeqToSet(DateCols[p]) : safe_date_parse(r[c]).warned})

\* a variant that also wants the anchor date: dropna over the date column too
dropna_keeps_dated(r, p) ==
    ~isna(r[BranchCol[p]]) /\ ~isna(r["Total Rec."]) /\ r[AnchorCol[p]] # NaT

\* dropna(subset=[name column, 'Total Rec.'])
dropna_keeps(r, p) == ~isna(r[BranchCol[p]]) /\ ~isna(r["Total Rec."])

RECURSIVE dropna(_, _)
dropna(rows, p) ==
    IF rows = <<>> THEN <<>>
    ELSE IF dropna_keeps(Head(rows), p) THEN <<Head(rows)>> \o dropna(Tail(rows), p)
    ELSE dropna(Tail(rows), p)

\* a variant in which a comparison with NaT gives no status ("" for missing)
on_time_status_na(indate, duedate) ==
    IF indate = NaT \/ duedate = NaT THEN ""
    ELSE IF indate <= duedate THEN "On Time" ELSE "Delayed"

\* a variant that compares the other way round: Duedate <= Indate
on_time_status_swapped(indate, duedate) ==
    IF indate # NaT /\ duedate # NaT /\ duedate <= indate THEN "On Time" ELSE "Delayed"

\* (Indate <= Duedate).map({True: 'On Time', False: 'Delayed'}); NaT compares False
on_time_status(indate, duedate) ==
    IF indate # NaT /\ duedate # NaT /\ indate <= duedate THEN "On Time" ELSE "Delayed"

\* the derived columns of one kept row
derive(r, p) ==
    LET anchor == r[AnchorCol[p]]
        common == ("Processing Days" :> days_between(anchor, r["Outdate"]))
                  @@ ("Week" :> week_start(anchor))
                  @@ ("Month" :> month_start(anchor))
                  @@ ("Process" :> p)
    IN  IF p = "Key"
        THEN r @@ common @@ ("On Time Status" :> on_time_status(r["Indate"], r["Duedate"]))
        ELSE r @@ common

DerivedCols(p) ==
    IF p = "Key" THEN <<"Processing Days", "On Time Status", "Week", "Month", "Process">>
    ELSE <<"Processing Days", "Week", "Month", "Process">>

\* the body of one try block: [raised, df, prints]
extract_process(p, df, rz) ==
    LET selected == Table([i \in 1..Len(df.rows) |-> iloc_row(df.rows[i], p)])
        parsed == Table([i \in 1..Len(df.rows) |-> parse_dates(selected[i], p)])
        prints == LET RECURSIVE count(_)
                      count(i) == IF i = 0 THEN 0 ELSE count(i - 1) + date_warnings(selected[i], p)
                  IN count(Len(df.rows))
        kept == dropna(parsed, p)
    IN  IF invalid_cols(p) \/ iloc_raises(df, p)
        THEN [raised |-> TRUE, df |-> EmptyDataFrame, prints |-> 0]
        ELSE IF kept # <<>> /\ <<"extract", p>> \in rz
        THEN [raised |-> TRUE, df |-> EmptyDataFrame, prints |-> prints]
        ELSE IF kept = <<>>
        THEN [raised |-> FALSE, df |-> DataFrame(ProcessNames[p], <<>>), prints |-> prints]
        ELSE [raised |-> FALSE, prints |-> prints,
              df |-> DataFrame(ProcessNames[p] \o DerivedCols(p),
                               Table([i \in 1..Len(kept) |-> derive(kept[i], p)]))]

-----------------------------------------------------------------------------
(* Sorting and grouping as pandas does them *)

\* the elements of S in ascending order of rank (a function on S, one rank each)
RECURSIVE SortSet(_, _)
SortSet(S, rank) ==
    IF S = {} THEN <<>>
    ELSE LET m == CHOOSE x \in S : \A y \in S : rank[x] <= rank[y]
         IN  <<m>> \o SortSet(S \ {m}, rank)

\* lexicographic order of pairs of integers
PairLess(a, b) == a[1] < b[1] \/ (a[1] = b[1] /\ a[2] < b[2])

\* a stable sort (np.lexsort): the positions I of a table in ascending order of
\* key, equal keys in ascending position
RECURSIVE stable_order(_, _)
stable_order(I, key) ==
    IF I = {} THEN <<>>
    ELSE LET m == CHOOSE i \in I : \A j \in I \ {i} :
                      PairLess(key[i], key[j]) \/ (key[i] = key[j] /\ i < j)
         IN  <<m>> \o stable_order(I \ {m}, key)

\* sort_values(by=one column, ascending=False) with the default kind='quicksort':
\* the positions in descending order of total; pandas promises no order among
\* equal totals, so every order of the ties is an outcome
RECURSIVE quicksort_desc_orders(_, _)
quicksort_desc_orders(I, total) ==
    IF I = {} THEN {<<>>}
    ELSE UNION { { <<i>> \o t : t \in quicksort_desc_orders(I \ {i}, total) } :
                 i \in {j \in I : \A k \in I : total[k] <= total[j]} }

RECURSIVE SumTotal(_)
SumTotal(rows) == IF rows = <<>> THEN 0 ELSE Head(rows).TotalRec + SumTotal(Tail(rows))

RECURSIVE Gcd(_, _)
Gcd(a, b) == IF b = 0 THEN a ELSE Gcd(b, a % b)

\* the number num/den as a reduced pair
Fraction(num, den) ==
    LET a == IF num < 0 THEN -num ELSE num
        g == Gcd(a, den)
    IN  <<num \div g, den \div g>>

Zero == Fraction(0, 1)

-----------------------------------------------------------------------------
(* Personnel tables: lines 318-417 *)

\* df[[name column, 'Total Rec.', 'Process']].rename(columns={name column: 'Name'})
personnel_rows(p, df) ==
    Table([i \in 1..Len(df.rows) |->
        [Name |-> df.rows[i][BranchCol[p]].s,
         TotalRec |-> df.rows[i]["Total Rec."].n,
         Process |-> df.rows[i]["Process"]]])

\* a variant that keeps the groups whose period is NaT (groupby dropna=False)
personnel_period_keep_nat(p, df, period) ==
    LET rows == df.rows
        keys == {<<rows[i][period], rows[i][BranchCol[p]].s>> :
                    i \in 1..Len(rows)}
        rank == [k \in keys |-> k[1] * (Len(StringOrder) + 1) + StrRank(k[2])]
        sorted == SortSet(keys, rank)
        group(k) == LET idx == {i \in 1..Len(rows) :
                                   rows[i][period] = k[1] /\ rows[i][BranchCol[p]].s = k[2]}
                        RECURSIVE sum(_)
                        sum(I) == IF I = {} THEN 0
                                  ELSE LET i == CHOOSE x \in I : TRUE
                                       IN rows[i]["Total Rec."].n + sum(I \ {i})
                    IN sum(idx)
    IN  Table([i \in 1..Len(sorted) |->
            [Period |-> sorted[i][1], Name |-> sorted[i][2],
             TotalRec |-> group(sorted[i]), Process |-> p]])

\* df.groupby([period, name column]).agg({'Total Rec.': 'sum'}).reset_index() with
\* Process = p and the name column renamed: groupby drops the rows whose key is
\* NaT and sorts the groups by key
personnel_period(p, df, period) ==
    LET rows == df.rows
        keys == {<<rows[i][period], rows[i][BranchCol[p]].s>> :
                    i \in {j \in 1..Len(rows) : rows[j][period] # NaT}}
        rank == [k \in keys |-> k[1] * (Len(StringOrder) + 1) + StrRank(k[2])]
        sorted == SortSet(keys, rank)
        group(k) == LET idx == {i \in 1..Len(rows) :
                                   rows[i][period] = k[1] /\ rows[i][BranchCol[p]].s = k[2]}
                        RECURSIVE sum(_)
                        sum(I) == IF I = {} THEN 0
                                  ELSE LET i == CHOOSE x \in I : TRUE
                                       IN rows[i]["Total Rec."].n + sum(I \ {i})
                    IN sum(idx)
    IN  Table([i \in 1..Len(sorted) |->
            [Period |-> sorted[i][1], Name |-> sorted[i][2],
             TotalRec |-> group(sorted[i]), Process |-> p]])

\* a variant that groups by Name alone and sums across the processes
personnel_grouped_by_name(personnel_data) ==
    LET all == Concat(personnel_data)
        keys == {all[i].Name : i \in 1..Len(all)}
        sorted == SortSet(keys, [k \in keys |-> StrRank(k)])
    IN  Table([i \in 1..Len(sorted) |->
            [Name |-> sorted[i],
             Process |-> (CHOOSE r \in SeqToSet(all) : r.Name = sorted[i]).Process,
             TotalRec |-> SumTotal(SelectSeq(all, LAMBDA r : r.Name = sorted[i]))]])

\* pd.concat(personnel_data).groupby(['Name', 'Process'])['Total Rec.'].sum().reset_index()
personnel_grouped(personnel_data) ==
    LET all == Concat(personnel_data)
        keys == {<<all[i].Name, all[i].Process>> : i \in 1..Len(all)}
        rank == [k \in keys |-> StrRank(k[1]) * (Len(StringOrder) + 1) + StrRank(k[2])]
        sorted == SortSet(keys, rank)
    IN  Table([i \in 1..Len(sorted) |->
            [Name |-> sorted[i][1], Process |-> sorted[i][2],
             TotalRec |-> SumTotal(SelectSeq(all,
                 LAMBDA r : r.Name = sorted[i][1] /\ r.Process = sorted[i][2]))]])

\* a variant that sorts ascending
sort_values_asc(grouped) ==
    quicksort_desc_orders(1..Len(grouped), [i \in 1..Len(grouped) |-> 0 - grouped[i].TotalRec])

\* the orders sort_values(by='Total Rec.', ascending=False) can leave the rows in
sort_values_desc(grouped) ==
    quicksort_desc_orders(1..Len(grouped), [i \in 1..Len(grouped) |-> grouped[i].TotalRec])

\* the sorted rows with S.No. = range(1, len + 1) inserted
personnel_report(grouped, order) ==
    Table([i \in 1..Len(order) |->
        [SNo |-> i, Name |-> grouped[order[i]].Name,
         Process |-> grouped[order[i]].Process,
         TotalRec |-> grouped[order[i]].TotalRec]])

\* a variant without the sort: the tables of the processes one after the other
personnel_period_report_concat(tables) == Concat(tables)

\* pd.concat(tables).sort_values([period, 'Total Rec.'], ascending=[True, False])
personnel_period_report(tables) ==
    LET all == Concat(tables)
        key == Table([i \in 1..Len(all) |-> <<all[i].Period, 0 - all[i].TotalRec>>])
        order == stable_order(1..Len(all), key)
    IN  Table([i \in 1..Len(order) |-> all[order[i]]])

-----------------------------------------------------------------------------
(* Weekly and monthly process reports: lines 419-477 *)

\* df.groupby([period, 'Process']).agg({'Total Rec.': 'sum', 'Processing Days': 'mean'})
\* .reset_index(): one row per period of the process, NaT periods dropped, the
\* mean over the values that are not NaN (NaN when there is none)
period_groupby(p, df, period) ==
    LET rows == df.rows
        keys == {rows[i][period] : i \in {j \in 1..Len(rows) : rows[j][period] # NaT}}
        sorted == SortSet(keys, [k \in keys |-> k])
        RECURSIVE total(_, _)
        total(I, k) == IF I = {} THEN 0
                       ELSE LET i == CHOOSE x \in I : TRUE
                            IN (IF rows[i][period] = k THEN rows[i]["Total Rec."].n ELSE 0)
                               + total(I \ {i}, k)
        known(k) == {i \in 1..Len(rows) :
                        rows[i][period] = k /\ ~rows[i]["Processing Days"].nan}
        RECURSIVE days(_)
        days(I) == IF I = {} THEN 0
                   ELSE LET i == CHOOSE x \in I : TRUE
                        IN rows[i]["Processing Days"].v + days(I \ {i})
    IN  Table([i \in 1..Len(sorted) |->
            [Period |-> sorted[i], Process |-> p,
             TotalRec |-> total(1..Len(rows), sorted[i]),
             ProcessingDays |->
                IF known(sorted[i]) = {} THEN [nan |-> TRUE, v |-> Zero]
                ELSE [nan |-> FALSE,
                      v |-> Fraction(days(known(sorted[i])), Cardinality(known(sorted[i])))]]])

PivotValues == <<"Processing Days", "Total Rec.">>   \* in the order sort_index leaves

\* ' '.join(col).strip()
column_name(metric, process) ==
    CASE metric = "Total Rec." /\ process = "Key" -> "Total Rec. Key"
      [] metric = "Total Rec." /\ process = "QC" -> "Total Rec. QC"
      [] metric = "Total Rec." /\ process = "Final" -> "Total Rec. Final"
      [] metric = "Processing Days" /\ process = "Key" -> "Processing Days Key"
      [] metric = "Processing Days" /\ process = "QC" -> "Processing Days QC"
      [] metric = "Processing Days" /\ process = "Final" -> "Processing Days Final"

\* a variant without fillna(0): a (period, process) pair that does not occur
\* stays NaN, written <<0, 0>>
pivot_cell_no_fill(all, k, pair) ==
    LET hit == {i \in 1..Len(all) : all[i].Period = k /\ all[i].Process = pair[2]}
        r == all[CHOOSE i \in hit : TRUE]
    IN  IF hit = {} THEN <<0, 0>>
        ELSE IF pair[1] = "Total Rec." THEN Fraction(r.TotalRec, 1)
        ELSE IF r.ProcessingDays.nan THEN Zero
        ELSE r.ProcessingDays.v

\* one cell of the pivot: the sum over the rows of (period k, process) of the
\* value pair[1]; aggfunc sum turns a NaN mean to 0 and fillna(0) fills the
\* pairs that do not occur
pivot_cell(all, k, pair) ==
    LET hit == {i \in 1..Len(all) : all[i].Period = k /\ all[i].Process = pair[2]}
        r == all[CHOOSE i \in hit : TRUE]
    IN  IF hit = {} THEN Zero
        ELSE IF pair[1] = "Total Rec." THEN Fraction(r.TotalRec, 1)
        ELSE IF r.ProcessingDays.nan THEN Zero
        ELSE r.ProcessingDays.v

\* pd.concat(data).pivot_table(index=period, columns='Process',
\*     values=['Total Rec.', 'Processing Days'], aggfunc='sum').fillna(0), columns
\* joined, reset_index(): a row per period, a column per (value, process) that
\* occurs, in sorted order
pivot_report(data, period) ==
    LET all == Concat(data)
        periods == {all[i].Period : i \in 1..Len(all)}
        index == SortSet(periods, [k \in periods |-> k])
        procs == {all[i].Process : i \in 1..Len(all)}
        procSeq == SortSet(procs, [q \in procs |-> StrRank(q)])
        pairs == Concat(Table([m \in 1..Len(PivotValues) |->
                    Table([q \in 1..Len(procSeq) |-> <<PivotValues[m], procSeq[q]>>])]))
    IN  DataFrame(<<period>> \o [c \in 1..Len(pairs) |-> column_name(pairs[c][1], pairs[c][2])],
                  Table([i \in 1..Len(index) |->
                      [Period |-> index[i],
                       values |-> Table([c \in 1..Len(pairs) |-> pivot_cell(all, index[i], pairs[c])])]]))

-----------------------------------------------------------------------------
(* process_input_data: lines 219-484 *)

TableNames == {"Key", "QC", "Final", "Weekly", "Monthly",
               "Personnel", "PersonnelWeekly", "PersonnelMonthly"}

\* the dict results as constructed at lines 221-233: every df is None
InitialResults == [k \in TableNames |-> NoneDf]

\* the calls that can raise, as the oracle raises names them
ProcessSteps ==
    {<<s, p>> : s \in {"extract", "personnel", "weekly", "monthly"},
                p \in SeqToSet(Processes)}
    \cup {<<s, "all">> : s \in {"personnel_report", "personnel_weekly",
                                "personnel_monthly", "weekly_report", "monthly_report"}}

DataWarningTitle(p) ==
    CASE p = "Key" -> "Key Data Warning"
      [] p = "QC" -> "QC Data Warning"
      [] p = "Final" -> "Final Data Warning"

RECURSIVE Repeat(_, _)
Repeat(x, n) == IF n = 0 THEN <<>> ELSE <<x>> \o Repeat(x, n - 1)

\* input_df.empty
empty(df) == df.rows = <<>> \/ df.ncols = 0

\* a variant with one try block around the three extractions: any failure
\* empties the three tables
process_tables_one_try(df, rz) ==
    LET key == extract_process("Key", df, rz)
        qc == extract_process("QC", df, rz)
        final == extract_process("Final", df, rz)
        failed == key.raised \/ qc.raised \/ final.raised
        lost(ex) == [raised |-> TRUE, df |-> EmptyDataFrame, prints |-> ex.prints]
    IN  IF failed THEN [Key |-> lost(key), QC |-> lost(qc), Final |-> lost(final)]
        ELSE [Key |-> key, QC |-> qc, Final |-> final]

\* the three try blocks of lines 242-316, each with its own except
process_tables(df, rz) ==
    [Key |-> extract_process("Key", df, rz),
     QC |-> extract_process("QC", df, rz),
     Final |-> extract_process("Final", df, rz)]

\* what the three blocks print and show, in order
extraction_messages(ex) ==
    Concat(Table([k \in 1..Len(Processes) |->
        Repeat(Message("print", "Warning: Could not parse date"), ex[Processes[k]].prints)
        \o (IF ex[Processes[k]].raised
            THEN <<Message("showwarning", DataWarningTitle(Processes[k]))>>
            ELSE <<>>)]))

\* lines 323-384 stand in no try block of their own: a group-by that raises
\* there leaves process_input_data through the outer except (line 481)
personnel_blocks_raise(tables, rz) ==
    \E p \in SeqToSet(Processes) : has_data(tables[p]) /\ <<"personnel", p>> \in rz

\* the processes with data, in the order Key, QC, Final
with_data(tables) ==
    SelectSeq(Processes, LAMBDA p : has_data(tables[p]))

\* one guarded combination (lines 387-397, 400-407, 410-417, 433-447, 463-477):
\* nothing when the list is empty, the empty frame and a warning when it raises
guarded(list, step, rz, title, table) ==
    IF list = <<>> THEN [df |-> NoneDf, messages |-> <<>>]
    ELSE IF <<step, "all">> \in rz
    THEN [df |-> EmptyDataFrame, messages |-> <<Message("showwarning", title)>>]
    ELSE [df |-> table, messages |-> <<>>]

\* the loop of lines 421-431 (449-461): the per-process tables that did not raise
period_data(tables, step, period, rz) ==
    LET ps == SelectSeq(with_data(tables), LAMBDA p : <<step, p>> \notin rz)
    IN  Table([k \in 1..Len(ps) |-> period_groupby(ps[k], tables[ps[k]], period)])

period_prints(tables, step, rz) ==
    LET ps == SelectSeq(with_data(tables), LAMBDA p : <<step, p>> \in rz)
    IN  [k \in 1..Len(ps) |-> Message("print", "Warning: Error aggregating data")]

\* lines 318-477 for one order of the personnel sort: the five aggregate tables
\* and the messages
aggregate(tables, rz, order) ==
    LET ps == with_data(tables)
        personnel_data == Table([k \in 1..Len(ps) |-> personnel_rows(ps[k], tables[ps[k]])])
        personnel_weekly == Table([k \in 1..Len(ps) |-> personnel_period(ps[k], tables[ps[k]], "Week")])
        personnel_monthly == Table([k \in 1..Len(ps) |-> personnel_period(ps[k], tables[ps[k]], "Month")])
        personnel == guarded(personnel_data, "personnel_report", rz, "Personnel Report Warning",
                        DataFrame(<<"S.No.", "Name", "Process", "Total Rec.">>,
                                  personnel_report(personnel_grouped(personnel_data), order)))
        pweekly == guarded(personnel_weekly, "personnel_weekly", rz, "Weekly Personnel Warning",
                        DataFrame(<<"Week", "Name", "Total Rec.", "Process">>,
                                  personnel_period_report(personnel_weekly)))
        pmonthly == guarded(personnel_monthly, "personnel_monthly", rz, "Monthly Personnel Warning",
                        DataFrame(<<"Month", "Name", "Total Rec.", "Process">>,
                                  personnel_period_report(personnel_monthly)))
        weekly_data == period_data(tables, "weekly", "Week", rz)
        weekly == guarded(weekly_data, "weekly_report", rz, "Weekly Report Warning",
                        pivot_report(weekly_data, "Week"))
        monthly_data == period_data(tables, "monthly", "Month", rz)
        monthly == guarded(monthly_data, "monthly_report", rz, "Monthly Report Warning",
                        pivot_report(monthly_data, "Month"))
    IN  [Personnel |-> personnel.df, PersonnelWeekly |-> pweekly.df,
         PersonnelMonthly |-> pmonthly.df, Weekly |-> weekly.df, Monthly |-> monthly.df,
         messages |-> personnel.messages \o pweekly.messages \o pmonthly.messages
                      \o period_prints(tables, "weekly", rz) \o weekly.messages
                      \o period_prints(tables, "monthly", rz) \o monthly.messages]

\* the orders the personnel sort can produce for these tables
personnel_orders(tables) ==
    LET ps == with_data(tables)
    IN  sort_values_desc(personnel_grouped(
            Table([k \in 1..Len(ps) |-> personnel_rows(ps[k], tables[ps[k]])])))

\* the outcomes of process_input_data(input_df): [ret, results, messages], ret
\* "None" or "results"
process_input_data(df, rz) ==
    IF empty(df)
    THEN {[ret |-> "None", results |-> InitialResults,
           messages |-> <<Message("showerror", "Input Error")>>]}
    ELSE LET ex == process_tables(df, rz)
             tables == [Key |-> ex.Key.df, QC |-> ex.QC.df, Final |-> ex.Final.df]
             extracted == Table([k \in TableNames |->
                             IF k \in SeqToSet(Processes) THEN tables[k] ELSE NoneDf])
         IN  IF personnel_blocks_raise(tables, rz)
             THEN {[ret |-> "None", results |-> extracted,
                    messages |-> extraction_messages(ex)
                                 \o <<Message("showerror", "Processing Error")>>]}
             ELSE {LET agg == aggregate(tables, rz, order)
                   IN  [ret |-> "results",
                        results |-> Table([k \in TableNames |->
                                        IF k \in SeqToSet(Processes) THEN tables[k]
                                        ELSE agg[k]]),
                        messages |-> extraction_messages(ex) \o agg.messages]
                   : order \in personnel_orders(tables)}

-----------------------------------------------------------------------------
(* save_reports: lines 486-639 *)

\* the sheets in the order the code creates them: source table, title, the box
\* shown when building the sheet raises, and the chart the sheet gets
SheetSpecs ==
    << [table |-> "Key", title |-> "Key Process", warning |-> "Key Sheet Warning", chart |-> "none"],
       [table |-> "QC", title |-> "QC Process", warning |-> "QC Sheet Warning", chart |-> "none"],
       [table |-> "Final", title |-> "Final Process", warning |-> "Final Sheet Warning", chart |-> "none"],
       [table |-> "Weekly", title |-> "Weekly Report", warning |-> "Weekly Report Warning", chart |-> "production"],
       [table |-> "Monthly", title |-> "Monthly Report", warning |-> "Monthly Report Warning", chart |-> "production"],
       [table |-> "Personnel", title |-> "Personnel Performance", warning |-> "Personnel Sheet Warning", chart |-> "personnel"],
       [table |-> "PersonnelWeekly", title |-> "Personnel Weekly", warning |-> "Weekly Personnel Sheet Warning", chart |-> "trend"],
       [table |-> "PersonnelMonthly", title |-> "Personnel Monthly", warning |-> "Monthly Personnel Sheet Warning", chart |-> "trend"] >>

SaveSteps ==
    {<<"sheet", SheetSpecs[k].table>> : k \in 1..Len(SheetSpecs)}
    \cup {<<"chart", SheetSpecs[k].table>> : k \in {j \in 1..Len(SheetSpecs) : SheetSpecs[j].chart # "none"}}
    \cup {<<"save", "all">>}

\* a variant that only asks for a frame: an empty frame gets a sheet
sheet_wanted_not_none(df) == ~df.isNone

\* the sheet is created when data['df'] is not None and not data['df'].empty
sheet_wanted(df) == has_data(df)

\* wb.create_sheet for every table that has data, in the order of the code
create_sheets(data) ==
    LET ks == SelectSeq([k \in 1..Len(SheetSpecs) |-> k],
                        LAMBDA k : sheet_wanted(data[SheetSpecs[k].table]))
    IN  [i \in 1..Len(ks) |-> SheetSpecs[ks[i]].title]

\* add_production_chart: the columns of the data Reference (lines 123-131), or
\* no chart when no column is a record count column
production_chart(title, df) ==
    LET record_cols == SelectSeq(Tail(df.columns),
                         LAMBDA c : c \in {"Total Rec. Key", "Total Rec. QC", "Total Rec. Final"})
    IN  IF record_cols = <<>> THEN <<>>
        ELSE <<[sheet |-> title, type |-> "col", min_col |-> 2,
                max_col |-> Len(record_cols) + 1, cats_col |-> 1]>>

\* add_personnel_chart (lines 155-165)
personnel_chart(title, df) ==
    <<[sheet |-> title, type |-> "bar", min_col |-> 4, max_col |-> 4, cats_col |-> 2]>>

\* add_personnel_trend_chart (lines 175-215): min(5, names) series
trend_chart(title, df) ==
    LET names == {df.rows[i].Name : i \in 1..Len(df.rows)}
        top == IF Cardinality(names) < 5 THEN Cardinality(names) ELSE 5
    IN  <<[sheet |-> title, type |-> "col", min_col |-> 2, max_col |-> top + 1, cats_col |-> 1]>>

\* what one sheet's try block adds: its chart, or the boxes and prints
sheet_block(spec, df, rz) ==
    IF ~sheet_wanted(df) THEN [charts |-> <<>>, messages |-> <<>>]
    ELSE IF <<"sheet", spec.table>> \in rz
    THEN [charts |-> <<>>, messages |-> <<Message("showwarning", spec.warning)>>]
    ELSE IF spec.chart = "none" THEN [charts |-> <<>>, messages |-> <<>>]
    ELSE IF <<"chart", spec.table>> \in rz
    THEN [charts |-> <<>>, messages |-> <<Message("print", "Warning: Error adding chart")>>]
    ELSE [messages |-> <<>>,
          charts |-> CASE spec.chart = "production" -> production_chart(spec.title, df)
                       [] spec.chart = "personnel" -> personnel_chart(spec.title, df)
                       [] spec.chart = "trend" -> trend_chart(spec.title, df)]

\* wb.save raises on a workbook without sheets, and when the file cannot be written
save_raises(titles, rz) == titles = <<>> \/ <<"save", "all">> \in rz

\* save_reports(processed_data): [sheets, charts, messages, attempts, saved]
save_reports(data, rz) ==
    LET blocks == Table([k \in 1..Len(SheetSpecs) |->
                      sheet_block(SheetSpecs[k], data[SheetSpecs[k].table], rz)])
        titles == create_sheets(data)
    IN  [sheets |-> titles,
         charts |-> Concat([k \in 1..Len(SheetSpecs) |-> blocks[k].charts]),
         attempts |-> 1,
         saved |-> IF save_raises(titles, rz) THEN <<>> ELSE titles,
         messages |-> Concat([k \in 1..Len(SheetSpecs) |-> blocks[k].messages])
                      \o (IF save_raises(titles, rz)
                          THEN <<Message("showerror", "Save Error")>>
                          ELSE <<Message("showinfo", "Success")>>)]

-----------------------------------------------------------------------------
(* run: lines 641-664 *)

NoTable == [ncols |-> 0, rows |-> <<>>]
NoIndex == [isNone |-> TRUE, index |-> 0]

\* select_file: no file chosen shows the info box and exits
SelectFile ==
    /\ pc = "select"
    /\ pc' = IF file.selected THEN "read" ELSE "done"
    /\ messages' = IF file.selected THEN messages
                   ELSE Append(messages, Message("showinfo", "Info"))
    /\ UNCHANGED <<file, raises, input_df, results, processed_data, sheets, charts,
                   save_attempts, saved, col_letters, col_index>>
    /\ UNCHANGED dateVars

\* pd.read_excel: a file that cannot be read shows the error box and returns
ReadExcel ==
    /\ pc = "read"
    /\ pc' = IF file.readable THEN "process" ELSE "done"
    /\ input_df' = IF file.readable THEN file.table ELSE input_df
    /\ messages' = IF file.readable THEN messages
                   ELSE Append(messages, Message("showerror", "File Read Error"))
    /\ UNCHANGED <<file, raises, results, processed_data, sheets, charts,
                   save_attempts, saved, col_letters, col_index>>
    /\ UNCHANGED dateVars

\* processed_data = self.process_input_data(input_df)
ProcessInputData ==
    /\ pc = "process"
    /\ \E out \in process_input_data(input_df, raises) :
          /\ results' = out.results
          /\ processed_data' = out.ret
          /\ messages' = messages \o out.messages
          /\ pc' = IF out.ret = "None" THEN "done" ELSE "save"
    /\ UNCHANGED <<file, raises, input_df, sheets, charts, save_attempts, saved,
                   col_letters, col_index>>
    /\ UNCHANGED dateVars

\* self.save_reports(processed_data)
SaveReports ==
    /\ pc = "save"
    /\ LET out == save_reports(results, raises)
       IN  /\ sheets' = out.sheets
           /\ charts' = out.charts
           /\ save_attempts' = save_attempts + out.attempts
           /\ saved' = out.saved
           /\ messages' = messages \o out.messages
    /\ pc' = "done"
    /\ UNCHANGED <<file, raises, input_df, results, processed_data, col_letters, col_index>>
    /\ UNCHANGED dateVars

Next == SelectFile \/ ReadExcel \/ ProcessInputData \/ SaveReports

\* one call of excel_column_to_index on col_letters
MapColumn ==
    /\ pc = "map"
    /\ col_index' = excel_column_to_index(col_letters)
    /\ messages' = IF excel_column_to_index(col_letters).isNone
                   THEN Append(messages, Message("showerror", "Column Conversion Error"))
                   ELSE messages
    /\ pc' = "mapped"
    /\ UNCHANGED <<file, raises, input_df, results, processed_data, sheets, charts,
                   save_attempts, saved, col_letters>>
    /\ UNCHANGED dateVars

NextCol == MapColumn

\* one call of safe_date_parse on the next cell
ParseDate ==
    /\ pc = "parse"
    /\ date_cells # <<>>
    /\ LET out == safe_date_parse(Head(date_cells))
       IN  /\ date_results' = Append(date_results, [cell |-> Head(date_cells), value |-> out.value,
                                         warned |-> out.warned, raised |-> out.raised])
           /\ messages' = IF out.warned
                           THEN Append(messages, Message("print", "Warning: Could not parse date"))
                           ELSE messages
    /\ date_cells' = Tail(date_cells)
    /\ UNCHANGED <<pc, file, raises, input_df, results, processed_data, sheets, charts,
                   save_attempts, saved, col_letters, col_index>>

NextDate == ParseDate

-----------------------------------------------------------------------------
(* Input files and specifications *)

NumColumns == 29    \* a sheet whose last column is AC

\* a raw row: the cells of the columns J-N and U-AC, by zero-based position
RawRow(J, K, L, M, N, U, V, W, X, Y, Z, AA, AB, AC) ==
    (9 :> J) @@ (10 :> K) @@ (11 :> L) @@ (12 :> M) @@ (13 :> N)
    @@ (20 :> U) @@ (21 :> V) @@ (22 :> W) @@ (23 :> X)
    @@ (24 :> Y) @@ (25 :> Z) @@ (26 :> AA) @@ (27 :> AB) @@ (28 :> AC)

\* the row of a sheet that has only ncols columns
Truncate(row, ncols) == [i \in {j \in DOMAIN row : j < ncols} |-> row[i]]

Tables(rowset, ncols) ==
    UNION { {[ncols |-> ncols, rows |-> [i \in 1..n |-> Truncate(t[i], ncols)]] :
                t \in [1..n -> rowset]} : n \in 0..MaxRows }

ReadableFiles(rowset, ncols) ==
    {[selected |-> TRUE, readable |-> TRUE, table |-> t] : t \in Tables(rowset, ncols)}

\* rows whose name cells (all three, or none) and count cells are present or
\* empty, with every date given, a WIP marker, or a text that is no date
ExtractRows ==
    { RawRow(J, IF dates = "dated" THEN Timestamp(1) ELSE Text(dates),
                IF dates = "dated" THEN Timestamp(9) ELSE Text(dates),
                IF dates = "dated" THEN Timestamp(2) ELSE Text(dates), N,
             J, IF dates = "dated" THEN Timestamp(1) ELSE Text(dates),
                IF dates = "dated" THEN Timestamp(9) ELSE Text(dates), X,
             IF isna(J) THEN NaN ELSE Text("b"),
                IF dates = "dated" THEN Timestamp(1) ELSE Text(dates),
                IF dates = "dated" THEN Timestamp(9) ELSE Text(dates), Text("ok"),
                IF dates = "dated" THEN Timestamp(33) ELSE Text(dates)) :
        J \in {NaN, Text("a")}, N \in {NaN, Number(10)}, X \in {NaN, Number(15)},
        dates \in {"dated", "WIP", "not-a-date"} }

\* rows with a Key record: two names, counts 10 and 15, Key work ending in the
\* first or the second week of January; with it a QC record of February, a
\* Final record shipped in the first week of January, or neither
AggRows ==
    { RawRow(J, Timestamp(1), Timestamp(9), M, N,
             UY[1], Timestamp(1), Timestamp(33), Number(15),
             UY[2], Timestamp(1), Timestamp(9), Text("ok"), Timestamp(2)) :
        J \in {Text("a"), Text("b")}, N \in {Number(10), Number(15)},
        M \in {Timestamp(2), Timestamp(9)},
        UY \in {<<NaN, NaN>>, <<Text("a"), NaN>>, <<NaN, Text("b")>>} }

\* rows with a record of every process and dates that vary: the Key and QC
\* work ends before, on or after the Key due date or is still in progress, the
\* Key and Final work starts on 6 January or has no start date, the due date is
\* 10 January or absent, the Final shipment is 31 days after the Key end date
DeriveRows ==
    { RawRow(Text("a"), K, L, M, Number(10),
             Text("a"), Timestamp(9), M, Number(15),
             Text("b"), K, Timestamp(9), Text("ok"),
             IF M.t = "date" THEN Timestamp(M.n + 31) ELSE M) :
        K \in {Timestamp(5), Text("WIP")}, L \in {Timestamp(9), NaN},
        M \in {Timestamp(2), Timestamp(9), Timestamp(12), Text("WIP")} }

\* rows with every process present, or the Key process alone
FailRows ==
    { RawRow(Text("a"), Timestamp(1), Timestamp(9), Timestamp(2), Number(10),
             U, Timestamp(1), Timestamp(9), Number(15),
             U, Timestamp(1), Timestamp(9), Text("ok"), Timestamp(33)) :
        U \in {NaN, Text("b")} }

\* sheets that end at column N, at column X, and at column AC
FailColumns == {14, 24, NumColumns}

FailFiles ==
    {[selected |-> FALSE, readable |-> FALSE, table |-> NoTable],
     [selected |-> TRUE, readable |-> FALSE, table |-> NoTable]}
    \cup UNION {ReadableFiles(FailRows, n) : n \in FailColumns}

\* the sets of at most n calls that raise
RECURSIVE RaiseSetsUpTo(_)
RaiseSetsUpTo(n) ==
    IF n = 0 THEN {{}}
    ELSE RaiseSetsUpTo(n - 1)
         \cup {rz \cup {step} : rz \in RaiseSetsUpTo(n - 1), step \in ProcessSteps \cup SaveSteps}

RaiseSets == RaiseSetsUpTo(MaxRaises)

InitRun(files, raiseSets) ==
    /\ pc = "select"
    /\ file \in files
    /\ raises \in raiseSets
    /\ input_df = NoTable
    /\ results = InitialResults
    /\ processed_data = "unset"
    /\ messages = <<>>
    /\ sheets = <<>>
    /\ charts = <<>>
    /\ save_attempts = 0
    /\ saved = <<>>
    /\ col_letters = <<>>
    /\ col_index = NoIndex
    /\ date_cells = <<>>
    /\ date_results = <<>>

InitExtract == InitRun(ReadableFiles(ExtractRows, NumColumns), {{}})
InitAgg == InitRun(ReadableFiles(AggRows, NumColumns), {{}})
InitFail == InitRun(FailFiles, RaiseSets)
InitDerive == InitRun(ReadableFiles(DeriveRows, NumColumns), {{}})

\* runs on well-formed sheets with names, counts and dates present or absent
SpecExtract == InitExtract /\ [][Next]_vars
\* runs on rows that all hold a Key record, for the aggregates
SpecAgg == InitAgg /\ [][Next]_vars
\* runs in which the file, the sheet's width or a library call fails
SpecFail == InitFail /\ [][Next]_vars
\* runs on rows whose dates vary, for the derived columns
SpecDerive == InitDerive /\ [][Next]_vars
\* the same runs, which go on as long as a step is left
FairSpecFail == InitFail /\ [][Next]_vars /\ WF_vars(Next)

ColumnAlphabet == SeqToSet(UpperLetters) \cup SeqToSet(LowerLetters) \cup {"1", "$"}

Labels == UNION {[1..n -> ColumnAlphabet] : n \in 0..MaxLabelLen}

InitCol ==
    /\ pc = "map"
    /\ col_letters \in Labels
    /\ col_index = NoIndex
    /\ file = [selected |-> FALSE, readable |-> FALSE, table |-> NoTable]
    /\ raises = {}
    /\ input_df = NoTable
    /\ results = InitialResults
    /\ processed_data = "unset"
    /\ messages = <<>>
    /\ sheets = <<>>
    /\ charts = <<>>
    /\ save_attempts = 0
    /\ saved = <<>>
    /\ date_cells = <<>>
    /\ date_results = <<>>

\* calls of the column mapper on every label of the alphabet
SpecCol == InitCol /\ [][NextCol]_vars

\* the cells safe_date_parse is called on: an absent cell, a timestamp, a
\* number, the sentinels as written in sheets, dates in the four formats and in
\* a form only the permissive parse reads, and a text that is no date
DateCells ==
    {NaN, Timestamp(2), Number(5)}
    \cup {Text(t) : t \in {"WIP", "wip", " WIP ", "NA", "na", "N/A", " n/a ", "", "  ",
                           "2024-01-03", "01/10/2024", "03-02-2024", "2024/02/03",
                           "Jan 3, 2024", "not-a-date"}}

InitDate ==
    /\ pc = "parse"
    /\ date_cells \in UNION {[1..n -> DateCells] : n \in 0..MaxCells}
    /\ date_results = <<>>
    /\ col_letters = <<>>
    /\ col_index = NoIndex
    /\ file = [selected |-> FALSE, readable |-> FALSE, table |-> NoTable]
    /\ raises = {}
    /\ input_df = NoTable
    /\ results = InitialResults
    /\ processed_data = "unset"
    /\ messages = <<>>
    /\ sheets = <<>>
    /\ charts = <<>>
    /\ save_attempts = 0
    /\ saved = <<>>

\* calls of safe_date_parse on sequences of cells
SpecDate == InitDate /\ [][NextDate]_vars

-----------------------------------------------------------------------------
(* Properties: helpers *)

AggregateNames == {"Weekly", "Monthly", "Personnel", "PersonnelWeekly", "PersonnelMonthly"}

\* process_input_data has been called on a table with rows
Processed == processed_data # "unset" /\ ~empty(input_df)

HasMessage(kind, title) == \E i \in 1..Len(messages) : messages[i] = Message(kind, title)

\* zero-based positions in the sheet: the last source column of each process
\* (N, X, AC), its name column (J, U, Y), its count column (N, X, X) and its
\* start-date column (K, V, Z)
LastColumn == [Key |-> 13, QC |-> 23, Final |-> 28]
NameColumn == [Key |-> 9, QC |-> 20, Final |-> 24]
TotalColumn == [Key |-> 13, QC |-> 23, Final |-> 23]
OutColumn == [Key |-> 10, QC |-> 21, Final |-> 25]

\* the table of process p when nothing raises
Extracted(p) == extract_process(p, input_df, {}).df

\* the extraction of p fails on this run: the sheet is too narrow for its
\* columns, or the date arithmetic on its kept rows raises
ExtractionFails(p) ==
    \/ input_df.ncols <= LastColumn[p]
    \/ (<<"extract", p>> \in raises /\ Extracted(p).rows # <<>>)

\* the calls of lines 318-477
AggregationSteps == {st \in ProcessSteps : st[1] # "extract"}

-----------------------------------------------------------------------------
(* C1 *)

\* C1: when the extraction of a process fails, its table is the empty frame and
\* its warning box is shown; the table of every process whose extraction does
\* not fail is what the extraction gives with no failure at all, with no
\* warning for it; and when no aggregation call raises, the result is returned
\* with the five aggregates computed from these tables.
C1_ExtractionFailureContained ==
    Processed =>
        /\ \A p \in SeqToSet(Processes) :
              IF ExtractionFails(p)
              THEN /\ results[p] = EmptyDataFrame
                   /\ HasMessage("showwarning", DataWarningTitle(p))
              ELSE /\ results[p] = Extracted(p)
                   /\ ~HasMessage("showwarning", DataWarningTitle(p))
        /\ (raises \cap AggregationSteps = {}) =>
              /\ processed_data = "results"
              /\ \E order \in personnel_orders(results) :
                    \A k \in AggregateNames : results[k] = aggregate(results, {}, order)[k]

\* one extraction failed, the other two processes have their tables, and the
\* result with its personnel table was returned
C1_Witness ==
    /\ Processed
    /\ processed_data = "results"
    /\ \E p \in SeqToSet(Processes) :
          /\ ExtractionFails(p)
          /\ \A q \in SeqToSet(Processes) \ {p} : ~ExtractionFails(q) /\ has_data(results[q])
    /\ has_data(results["Personnel"])

-----------------------------------------------------------------------------
(* C2 *)

\* C2: a run whose input table was read and has rows ends with exactly one
\* call of wb.save, whatever failed on the way.
C2_SaveAlwaysAttempted ==
    (pc = "done" /\ file.selected /\ file.readable /\ ~empty(file.table))
        => save_attempts = 1

-----------------------------------------------------------------------------
(* C3 *)

CombinationStep ==
    [Personnel |-> "personnel_report", PersonnelWeekly |-> "personnel_weekly",
     PersonnelMonthly |-> "personnel_monthly", Weekly |-> "weekly_report",
     Monthly |-> "monthly_report"]

CombinationWarning ==
    [Personnel |-> "Personnel Report Warning", PersonnelWeekly |-> "Weekly Personnel Warning",
     PersonnelMonthly |-> "Monthly Personnel Warning", Weekly |-> "Weekly Report Warning",
     Monthly |-> "Monthly Report Warning"]

\* C3: whichever aggregation call raises, process_input_data returns the
\* results, and an aggregate whose combination raised is the empty frame with
\* its warning shown.
C3_AggregationFailureContained ==
    Processed =>
        /\ processed_data = "results"
        /\ \A k \in AggregateNames :
              (<<CombinationStep[k], "all">> \in raises /\ with_data(results) # <<>>)
                  => results[k] = EmptyDataFrame
                     /\ HasMessage("showwarning", CombinationWarning[k])

-----------------------------------------------------------------------------
(* C4 *)

\* the raw rows whose name cell and count cell of process p are both present
RawKept(p) ==
    SelectSeq(input_df.rows,
              LAMBDA row : ~isna(row[NameColumn[p]]) /\ ~isna(row[TotalColumn[p]]))

\* C4: on a sheet wide enough, the table of each process holds exactly the raw
\* rows whose name and count cells are both present, in input order, whatever
\* their date cells hold: the k-th row of the table has the name, the count and
\* the parsed start date of the k-th such raw row.
C4_RowsKeptIffNameAndTotal ==
    (Processed /\ raises = {} /\ input_df.ncols = NumColumns) =>
        \A p \in SeqToSet(Processes) :
            /\ Len(results[p].rows) = Len(RawKept(p))
            /\ \A k \in 1..Len(RawKept(p)) :
                  /\ results[p].rows[k][BranchCol[p]] = RawKept(p)[k][NameColumn[p]]
                  /\ results[p].rows[k]["Total Rec."] = RawKept(p)[k][TotalColumn[p]]
                  /\ results[p].rows[k]["Outdate"]
                        = safe_date_parse(RawKept(p)[k][OutColumn[p]]).value

\* two raw rows, the first dropped from the Key table for its missing name, the
\* second kept although none of its dates parses
C4_Witness ==
    /\ Processed
    /\ Len(input_df.rows) = 2
    /\ isna(input_df.rows[1][9])
    /\ Len(results["Key"].rows) = 1
    /\ results["Key"].rows[1]["Indate"] = NaT
    /\ results["Key"].rows[1]["Outdate"] = NaT
    /\ results["Key"].rows[1]["Duedate"] = NaT

-----------------------------------------------------------------------------
(* C5 *)

\* the sum of the counts of the records of process p whose period column holds k
\* and, when name is not "", whose name is name
RECURSIVE SumRows(_, _, _, _, _)
SumRows(rows, p, name, period, k) ==
    IF rows = <<>> THEN 0
    ELSE (IF /\ (name = "" \/ Head(rows)[BranchCol[p]].s = name)
             /\ (period = "" \/ Head(rows)[period] = k)
          THEN Head(rows)["Total Rec."].n ELSE 0)
         + SumRows(Tail(rows), p, name, period, k)

\* the records of process p named name sum to this
PairTotal(name, p) == SumRows(results[p].rows, p, name, "", 0)

\* the (Name, Process) pairs of the three process tables
Pairs ==
    UNION { {<<results[p].rows[i][BranchCol[p]].s, p>> : i \in 1..Len(results[p].rows)} :
            p \in SeqToSet(Processes) }

PersonnelBuilt ==
    /\ Processed
    /\ processed_data = "results"
    /\ <<"personnel_report", "all">> \notin raises

\* C5: the personnel table has one row for each (Name, Process) pair of the
\* process tables and no other row, the row's count is the sum of the counts of
\* the pair's records, the counts never increase down the table, and S.No. is
\* 1, 2, ..., n from the top, so S.No. 1 stands on a largest count.
C5_PersonnelOverall ==
    PersonnelBuilt =>
        LET rows == results["Personnel"].rows
        IN  /\ Len(rows) = Cardinality(Pairs)
            /\ \A pair \in Pairs : \E i \in 1..Len(rows) :
                  /\ rows[i].Name = pair[1]
                  /\ rows[i].Process = pair[2]
                  /\ rows[i].TotalRec = PairTotal(pair[1], pair[2])
            /\ \A i \in 1..Len(rows) : rows[i].SNo = i
            /\ \A i, j \in 1..Len(rows) : i < j => rows[i].TotalRec >= rows[j].TotalRec
            /\ \A i \in 1..Len(rows) : rows[1].TotalRec >= rows[i].TotalRec

\* a personnel table of at least three pairs, the first the sum of two records
\* (10 + 15), the last a smaller count
C5_Witness ==
    /\ PersonnelBuilt
    /\ Len(results["Personnel"].rows) >= 3
    /\ results["Personnel"].rows[1].TotalRec = 25
    /\ results["Personnel"].rows[Len(results["Personnel"].rows)].TotalRec = 15

-----------------------------------------------------------------------------
(* C6 *)

\* the order of two personnel rows before the sort: by Name, then by Process
GroupedBefore(r, q) ==
    \/ StrLess(r.Name, q.Name)
    \/ (r.Name = q.Name /\ StrLess(r.Process, q.Process))

\* C6: two personnel rows with equal counts stand in the order they had before
\* the sort.
C6_TiesKeepOrder ==
    PersonnelBuilt =>
        LET rows == results["Personnel"].rows
        IN  \A i, j \in 1..Len(rows) :
                (i < j /\ rows[i].TotalRec = rows[j].TotalRec) => GroupedBefore(rows[i], rows[j])

-----------------------------------------------------------------------------
(* C7 *)

\* exactly the processes p1 and p2 have records named name, summing to 10 and 15
TwoProcessesContribute(name, p1, p2) ==
    /\ p1 # p2
    /\ PairTotal(name, p1) = 10
    /\ PairTotal(name, p2) = 15
    /\ \A q \in SeqToSet(Processes) \ {p1, p2} : <<name, q>> \notin Pairs

Names == {pair[1] : pair \in Pairs}

\* C7 as stated: when two processes contribute 10 and 15 to one name, a
\* personnel row of that name shows 25.
C7_SummedAcrossProcesses ==
    PersonnelBuilt =>
        \A name \in Names : \A p1, p2 \in SeqToSet(Processes) :
            TwoProcessesContribute(name, p1, p2) =>
                \E i \in 1..Len(results["Personnel"].rows) :
                    /\ results["Personnel"].rows[i].Name = name
                    /\ results["Personnel"].rows[i].TotalRec = 25

\* C7 amended: when two processes contribute 10 and 15 to one name, the
\* personnel table has exactly two rows of that name, one for each process,
\* showing 10 and 15; no row of that name shows 25.
C7_OneRowPerProcess ==
    PersonnelBuilt =>
        \A name \in Names : \A p1, p2 \in SeqToSet(Processes) :
            TwoProcessesContribute(name, p1, p2) =>
                LET rows == results["Personnel"].rows
                    mine == {i \in 1..Len(rows) : rows[i].Name = name}
                IN  /\ Cardinality(mine) = 2
                    /\ \E i \in mine : rows[i].Process = p1 /\ rows[i].TotalRec = 10
                    /\ \E i \in mine : rows[i].Process = p2 /\ rows[i].TotalRec = 15
                    /\ \A i \in mine : rows[i].TotalRec # 25

\* Key contributes 10 and QC 15 to the name a
C7_Witness ==
    /\ PersonnelBuilt
    /\ TwoProcessesContribute("a", "Key", "QC")

-----------------------------------------------------------------------------
(* C8 *)

\* the periods in which process p has records
PeriodsOf(p, period) ==
    {results[p].rows[i][period] : i \in 1..Len(results[p].rows)} \ {NaT}

AllPeriods(period) == UNION {PeriodsOf(p, period) : p \in SeqToSet(Processes)}

HasColumn(df, name) == \E c \in 1..Len(df.columns) : df.columns[c] = name

\* the value of row i of a report in the column called name
Value(df, i, name) ==
    df.rows[i].values[(CHOOSE c \in 1..Len(df.columns) : df.columns[c] = name) - 1]

ReportBuilt(table) ==
    /\ Processed
    /\ processed_data = "results"
    /\ \A st \in raises : st[1] \notin {"weekly", "monthly", "weekly_report", "monthly_report"}

\* the statement of C8 for one report and its period column
PeriodReportFilled(table, period) ==
    LET df == results[table]
    IN  /\ Len(df.rows) = Cardinality(AllPeriods(period))
        /\ \A k \in AllPeriods(period) : \E i \in 1..Len(df.rows) : df.rows[i].Period = k
        /\ \A p \in SeqToSet(Processes) : PeriodsOf(p, period) # {} =>
              /\ HasColumn(df, column_name("Total Rec.", p))
              /\ HasColumn(df, column_name("Processing Days", p))
              /\ \A i \in 1..Len(df.rows) :
                    IF df.rows[i].Period \in PeriodsOf(p, period)
                    THEN Value(df, i, column_name("Total Rec.", p))
                            = <<SumRows(results[p].rows, p, "", period, df.rows[i].Period), 1>>
                    ELSE /\ Value(df, i, column_name("Total Rec.", p)) = <<0, 1>>
                         /\ Value(df, i, column_name("Processing Days", p)) = <<0, 1>>

\* C8: the weekly and the monthly report have one row for each period of the
\* process tables; a process with records in some period has both its columns,
\* which hold 0 in every period where it has none, and its Total Rec. column
\* holds the sum of its counts in the periods where it has records.
C8_PeriodReportsFilled ==
    (ReportBuilt("Weekly") /\ ReportBuilt("Monthly")) =>
        /\ PeriodReportFilled("Weekly", "Week")
        /\ PeriodReportFilled("Monthly", "Month")

\* a week with Key records and no Final record, in a report that has the Final
\* columns: they hold 0 there
C8_Witness ==
    /\ ReportBuilt("Weekly")
    /\ \E i \in 1..Len(results["Weekly"].rows) :
          /\ results["Weekly"].rows[i].Period \in PeriodsOf("Key", "Week")
          /\ results["Weekly"].rows[i].Period \notin PeriodsOf("Final", "Week")
          /\ HasColumn(results["Weekly"], "Total Rec. Final")
          /\ Value(results["Weekly"], i, "Total Rec. Final") = <<0, 1>>
          /\ Value(results["Weekly"], i, "Total Rec. Key") = <<25, 1>>

-----------------------------------------------------------------------------
(* C9 *)

SheetOrder == <<"Key Process", "QC Process", "Final Process", "Weekly Report",
                "Monthly Report", "Personnel Performance", "Personnel Weekly",
                "Personnel Monthly">>

SheetSource == <<"Key", "QC", "Final", "Weekly", "Monthly", "Personnel",
                 "PersonnelWeekly", "PersonnelMonthly">>

SheetPosition(title) == CHOOSE k \in 1..Len(SheetOrder) : SheetOrder[k] = title

\* C9: after save_reports the workbook has at most eight sheets, every one with
\* a name of the fixed list, in the order of the list, and the sheet of a table
\* is there exactly when the table has rows.
C9_SheetOrderFixed ==
    (pc = "done" /\ processed_data = "results") =>
        /\ Len(sheets) <= 8
        /\ \A i \in 1..Len(sheets) : \E k \in 1..Len(SheetOrder) : SheetOrder[k] = sheets[i]
        /\ \A i, j \in 1..Len(sheets) :
              i < j => SheetPosition(sheets[i]) < SheetPosition(sheets[j])
        /\ \A k \in 1..Len(SheetOrder) :
              (\E i \in 1..Len(sheets) : sheets[i] = SheetOrder[k])
                  <=> (~results[SheetSource[k]].isNone /\ results[SheetSource[k]].rows # <<>>)

\* a saved workbook with the Key sheet and the personnel sheet but no Final
\* sheet, behind a Final table that is an empty frame
C9_Witness ==
    /\ pc = "done"
    /\ processed_data = "results"
    /\ results["Final"] = EmptyDataFrame
    /\ \E i, j \in 1..Len(sheets) :
          i < j /\ sheets[i] = "Key Process" /\ sheets[j] = "Personnel Performance"
    /\ \A i \in 1..Len(sheets) : sheets[i] # "Final Process"

-----------------------------------------------------------------------------
(* C10 *)

\* A = 1, ..., Z = 26, in either case
LetterNumber(char) ==
    CHOOSE k \in 1..26 : UpperLetters[k] = char \/ LowerLetters[k] = char

\* the value of a label read as a number in base 26 with the digits 1..26
RECURSIVE Positional(_)
Positional(label) ==
    IF label = <<>> THEN 0
    ELSE Positional(SubSeq(label, 1, Len(label) - 1)) * 26 + LetterNumber(label[Len(label)])

\* the upper-case label whose value is v
RECURSIVE LabelOf(_)
LabelOf(v) ==
    IF v = 0 THEN <<>>
    ELSE LabelOf((v - 1) \div 26) \o <<UpperLetters[((v - 1) % 26) + 1]>>

\* a label of at least one letter, all of them A-Z or a-z
LettersOnly(label) ==
    /\ Len(label) >= 1
    /\ \A i \in 1..Len(label) :
          \E k \in 1..26 : UpperLetters[k] = label[i] \/ LowerLetters[k] = label[i]

\* C10: for a label of letters, excel_column_to_index returns an index that is
\* not negative and is one less than the label's base-26 value in either case
\* (A gives 0, Z gives 25, AA gives 26); the upper-case label is recovered from
\* the index, so labels that differ in more than case have different indexes.
C10_ColumnIndexPositional ==
    (pc = "mapped" /\ LettersOnly(col_letters)) =>
        /\ ~col_index.isNone
        /\ col_index.index >= 0
        /\ col_index.index = Positional(col_letters) - 1
        /\ LabelOf(col_index.index + 1)
              = [i \in 1..Len(col_letters) |-> UpperLetters[LetterNumber(col_letters[i])]]
        /\ (col_letters = <<"A">> => col_index.index = 0)
        /\ (col_letters = <<"Z">> => col_index.index = 25)
        /\ (col_letters = <<"A", "A">> => col_index.index = 26)

\* the label aC mapped to 28, the index of AC
C10_Witness ==
    /\ pc = "mapped"
    /\ col_letters = <<"a", "C">>
    /\ col_index = [isNone |-> FALSE, index |-> 28]

-----------------------------------------------------------------------------
(* C11 *)

\* the texts that are a sentinel after trimming, in any letter case
SentinelTexts == {"WIP", "wip", " WIP ", "NA", "na", "N/A", " n/a ", "", "  "}

\* the texts written in one of the four formats, and the one only the
\* permissive parse reads
DateTexts == {"2024-01-03", "01/10/2024", "03-02-2024", "2024/02/03", "Jan 3, 2024"}

\* a text that is no sentinel, matches no format and fails the permissive parse
Unparsable(cell) ==
    cell.t = "str" /\ cell.s \notin SentinelTexts /\ cell.s \notin DateTexts

\* the warnings printed so far
Warnings == SelectSeq(messages, LAMBDA m : m = Message("print", "Warning: Could not parse date"))

\* C11: no call of safe_date_parse raises; a sentinel text and an absent cell
\* give NaT without a warning, a text that no format and no permissive parse
\* reads gives NaT with a warning, every other cell gives a date without one,
\* and exactly one warning is printed for each unparsable cell.
C11_DateParseNeverRaises ==
    (pc = "parse") =>
        /\ \A i \in 1..Len(date_results) :
              /\ ~date_results[i].raised
              /\ (isna(date_results[i].cell) \/ (date_results[i].cell.t = "str" /\ date_results[i].cell.s \in SentinelTexts))
                    => (date_results[i].value = NaT /\ ~date_results[i].warned)
              /\ Unparsable(date_results[i].cell) => (date_results[i].value = NaT /\ date_results[i].warned)
              /\ (date_results[i].value # NaT) => ~date_results[i].warned
              /\ (date_results[i].cell.t = "str" /\ date_results[i].cell.s \in DateTexts)
                    => date_results[i].value \in {2, 9, 33}
        /\ Len(Warnings) = Cardinality({i \in 1..Len(date_results) : Unparsable(date_results[i].cell)})

\* a blank sentinel parsed to NaT in silence, then a text that is no date
\* parsed to NaT with the one warning of the run
C11_Witness ==
    /\ pc = "parse"
    /\ Len(date_results) = 2
    /\ date_results[1].cell = Text(" n/a ") /\ date_results[1].value = NaT /\ ~date_results[1].warned
    /\ date_results[2].cell = Text("not-a-date") /\ date_results[2].value = NaT /\ date_results[2].warned
    /\ Len(Warnings) = 1

-----------------------------------------------------------------------------
(* C12 *)

\* the day in a raw cell that holds a timestamp, NaT for any other cell
RawDay(cell) == IF cell.t = "date" THEN cell.n ELSE NaT

\* zero-based positions of the Key due date (L) and of each process's end date
\* (M, W, AA) and of the Final shipment date (AC)
DueColumn == 11
InColumn == [Key |-> 12, QC |-> 22, Final |-> 26]
ShipColumn == 28

\* the tables were extracted from rows that are all kept
AllKept ==
    /\ Processed
    /\ processed_data = "results"
    /\ \A p \in SeqToSet(Processes) : Len(results[p].rows) = Len(input_df.rows)

\* C12: every Key record has On Time Status "On Time" or "Delayed"; it is
\* "On Time" when its Indate is not after its Duedate and "Delayed" when its
\* Indate is after its Duedate; no QC or Final record has the column.
C12_OnTimeStatus ==
    AllKept =>
        /\ \A i \in 1..Len(results["Key"].rows) :
              LET r == results["Key"].rows[i]
                  indate == RawDay(input_df.rows[i][InColumn["Key"]])
                  duedate == RawDay(input_df.rows[i][DueColumn])
              IN  /\ r["On Time Status"] \in {"On Time", "Delayed"}
                  /\ (indate # NaT /\ duedate # NaT /\ indate <= duedate)
                        => r["On Time Status"] = "On Time"
                  /\ (indate # NaT /\ duedate # NaT /\ indate > duedate)
                        => r["On Time Status"] = "Delayed"
        /\ \A p \in {"QC", "Final"} :
              /\ \A c \in 1..Len(results[p].columns) : results[p].columns[c] # "On Time Status"
              /\ \A i \in 1..Len(results[p].rows) : "On Time Status" \notin DOMAIN results[p].rows[i]

\* a Key table whose first record ended on its due date (On Time) and whose
\* second ended three days after it (Delayed)
C12_Witness ==
    /\ AllKept
    /\ Len(results["Key"].rows) = 2
    /\ results["Key"].rows[1]["Indate"] = 9 /\ results["Key"].rows[1]["Duedate"] = 9
    /\ results["Key"].rows[1]["On Time Status"] = "On Time"
    /\ results["Key"].rows[2]["Indate"] = 12 /\ results["Key"].rows[2]["Duedate"] = 9
    /\ results["Key"].rows[2]["On Time Status"] = "Delayed"

-----------------------------------------------------------------------------
(* C13 *)

\* zero-based position of each process's anchor date: M, W and AC
AnchorColumn == [Key |-> InColumn["Key"], QC |-> InColumn["QC"], Final |-> ShipColumn]

\* d is the Monday of the week of day a (day 0 is a Monday)
IsWeekStartOf(d, a) == d % 7 = 0 /\ d <= a /\ a < d + 7

\* d is the first day of the month of day a
IsMonthStartOf(d, a) ==
    /\ \E k \in 1..Len(MonthStarts) : MonthStarts[k] = d
    /\ d <= a
    /\ \A k \in 1..Len(MonthStarts) : MonthStarts[k] > d => a < MonthStarts[k]

\* C13: for every record of every process, with anchor the Indate of a Key or
\* QC record and the Shipment Date of a Final record: Processing Days is missing
\* exactly when the anchor or the Outdate is missing and is otherwise the signed
\* number of days anchor - Outdate; Week and Month are the Monday of the week and
\* the first day of the month of the anchor, and missing when the anchor is.
C13_DerivedFromAnchor ==
    AllKept =>
        \A p \in SeqToSet(Processes) : \A i \in 1..Len(results[p].rows) :
            LET r == results[p].rows[i]
                anchor == RawDay(input_df.rows[i][AnchorColumn[p]])
                outdate == RawDay(input_df.rows[i][OutColumn[p]])
            IN  /\ r["Processing Days"].nan <=> (anchor = NaT \/ outdate = NaT)
                /\ ~r["Processing Days"].nan => r["Processing Days"].v = anchor - outdate
                /\ IF anchor = NaT THEN r["Week"] = NaT /\ r["Month"] = NaT
                   ELSE IsWeekStartOf(r["Week"], anchor) /\ IsMonthStartOf(r["Month"], anchor)

\* a row whose Key work ended on 3 January, three days before it started, and
\* whose Final work started on 6 January, ended on 10 January and shipped on
\* 3 February: -3 days in the week of 1 January, 28 days in the week of
\* 29 January and the month of February
C13_Witness ==
    /\ AllKept
    /\ Len(input_df.rows) >= 1
    /\ results["Key"].rows[1]["Processing Days"] = [nan |-> FALSE, v |-> -3]
    /\ results["Key"].rows[1]["Week"] = 0
    /\ results["Final"].rows[1]["Indate"] = 9
    /\ results["Final"].rows[1]["Processing Days"] = [nan |-> FALSE, v |-> 28]
    /\ results["Final"].rows[1]["Week"] = 28
    /\ results["Final"].rows[1]["Month"] = 31

-----------------------------------------------------------------------------
(* C17 *)

\* C17: a raw row with name and count whose Key Indate or Duedate is missing is
\* a record of the Key table with On Time Status "Delayed"; no Key record is
\* without a status.
C17_MissingDateIsDelayed ==
    AllKept =>
        \A i \in 1..Len(results["Key"].rows) :
            /\ results["Key"].rows[i]["Key Branch"] = input_df.rows[i][NameColumn["Key"]]
            /\ "On Time Status" \in DOMAIN results["Key"].rows[i]
            /\ results["Key"].rows[i]["On Time Status"] # ""
            /\ (\/ RawDay(input_df.rows[i][InColumn["Key"]]) = NaT
                \/ RawDay(input_df.rows[i][DueColumn]) = NaT)
                  => results["Key"].rows[i]["On Time Status"] = "Delayed"

\* a Key table with a WIP record that has a due date and a finished record
\* that has none, both Delayed
C17_Witness ==
    /\ AllKept
    /\ Len(results["Key"].rows) = 2
    /\ input_df.rows[1][InColumn["Key"]] = Text("WIP")
    /\ results["Key"].rows[1]["Indate"] = NaT /\ results["Key"].rows[1]["Duedate"] = 9
    /\ results["Key"].rows[1]["On Time Status"] = "Delayed"
    /\ results["Key"].rows[2]["Indate"] = 2 /\ results["Key"].rows[2]["Duedate"] = NaT
    /\ results["Key"].rows[2]["On Time Status"] = "Delayed"

-----------------------------------------------------------------------------
(* C14 *)

\* the sheet columns (names of the report's columns) a chart's data reference covers
Covered(chart, df) ==
    {df.columns[c] : c \in {k \in chart.min_col..chart.max_col : k <= Len(df.columns)}}

\* the total-records columns of a report
TotalColumns(df) ==
    {df.columns[c] : c \in {k \in 1..Len(df.columns) :
        df.columns[k] \in {"Total Rec. Key", "Total Rec. QC", "Total Rec. Final"}}}

\* the statement of C14 for the chart of one period report
ChartCoversTotals(title, table, period) ==
    \A i \in 1..Len(charts) :
        charts[i].sheet = title =>
            /\ charts[i].max_col - charts[i].min_col + 1 = Cardinality(TotalColumns(results[table]))
            /\ Covered(charts[i], results[table]) = TotalColumns(results[table])
            /\ charts[i].cats_col = 1
            /\ results[table].columns[1] = period

\* C14: the chart of the Weekly Report and of the Monthly Report sheet has one
\* series for each 'Total Rec. <Process>' column of the sheet, its data
\* reference covers exactly those columns and no 'Processing Days' column, and
\* its categories are the periods of column 1.
C14_ChartCoversTotals ==
    (pc = "done" /\ processed_data = "results") =>
        /\ ChartCoversTotals("Weekly Report", "Weekly", "Week")
        /\ ChartCoversTotals("Monthly Report", "Monthly", "Month")

-----------------------------------------------------------------------------
(* C15 *)

\* the (Period, Name, Process) triples of the records that have a period
Triples(period) ==
    UNION { {<<results[p].rows[i][period], results[p].rows[i][BranchCol[p]].s, p>> :
                i \in {j \in 1..Len(results[p].rows) : results[p].rows[j][period] # NaT}} :
            p \in SeqToSet(Processes) }

PersonnelPeriodBuilt ==
    /\ Processed
    /\ processed_data = "results"
    /\ \A st \in raises : st[1] \notin {"personnel_weekly", "personnel_monthly"}

\* the statement of C15 for one table and its period column
PersonnelPeriodOrdered(table, period) ==
    LET rows == results[table].rows
    IN  /\ Len(rows) = Cardinality(Triples(period))
        /\ \A t \in Triples(period) : \E i \in 1..Len(rows) :
              /\ rows[i].Period = t[1] /\ rows[i].Name = t[2] /\ rows[i].Process = t[3]
              /\ rows[i].TotalRec = SumRows(results[t[3]].rows, t[3], t[2], period, t[1])
        /\ \A i, j \in 1..Len(rows) :
              i < j => \/ rows[i].Period < rows[j].Period
                       \/ (rows[i].Period = rows[j].Period /\ rows[i].TotalRec >= rows[j].TotalRec)

\* C15: the personnel weekly and the personnel monthly table have one row for
\* each (Period, Name, Process) of the records that have a period, with the sum
\* of the counts of its records, the periods never decrease down the table, and
\* within one period the counts never increase, whatever process a row is of.
C15_PersonnelPeriodOrdered ==
    PersonnelPeriodBuilt =>
        /\ PersonnelPeriodOrdered("PersonnelWeekly", "Week")
        /\ PersonnelPeriodOrdered("PersonnelMonthly", "Month")

\* a weekly table in which a Final row of 15 stands before a Key row of 10 of
\* the same week, followed by a row of a later week
C15_Witness ==
    /\ PersonnelPeriodBuilt
    /\ Len(results["PersonnelWeekly"].rows) = 3
    /\ results["PersonnelWeekly"].rows[1] = [Period |-> 0, Name |-> "b", TotalRec |-> 15, Process |-> "Final"]
    /\ results["PersonnelWeekly"].rows[2] = [Period |-> 0, Name |-> "a", TotalRec |-> 10, Process |-> "Key"]
    /\ results["PersonnelWeekly"].rows[3].Period = 7

-----------------------------------------------------------------------------
(* C16 *)

\* the sum of the counts of the rows of a personnel table that are of (name, p)
RECURSIVE SumPersonnel(_, _, _)
SumPersonnel(rows, name, p) ==
    IF rows = <<>> THEN 0
    ELSE (IF Head(rows).Name = name /\ Head(rows).Process = p THEN Head(rows).TotalRec ELSE 0)
         + SumPersonnel(Tail(rows), name, p)

\* the sum of the column called name over the first n rows of a report
RECURSIVE SumColumn(_, _, _)
SumColumn(df, name, n) ==
    IF n = 0 THEN 0 ELSE Value(df, n, name)[1] + SumColumn(df, name, n - 1)

\* the statement of C16 for one period column, its personnel table and its report
NoPeriodForMissingAnchor(period, ptable, report) ==
    /\ \A i \in 1..Len(results[ptable].rows) : results[ptable].rows[i].Period # NaT
    /\ \A i \in 1..Len(results[report].rows) : results[report].rows[i].Period # NaT
    /\ \A pair \in Pairs :
          SumPersonnel(results[ptable].rows, pair[1], pair[2])
             = PairTotal(pair[1], pair[2])
               - SumRows(results[pair[2]].rows, pair[2], pair[1], period, NaT)
    /\ \A p \in SeqToSet(Processes) : PeriodsOf(p, period) # {} =>
          SumColumn(results[report], column_name("Total Rec.", p), Len(results[report].rows))
             = SumRows(results[p].rows, p, "", "", 0) - SumRows(results[p].rows, p, "", period, NaT)

\* C16: a raw row with name and count whose anchor date is missing is a record
\* of its process table with Week and Month missing, and its count is part of
\* its pair's total in the personnel table; no row of the personnel weekly and
\* monthly tables or of the weekly and monthly reports has a missing period;
\* the counts of a (Name, Process) pair over the periods of a personnel periodic
\* table add up to the pair's overall total less the counts of its records
\* without anchor, and so do the Total Rec. columns of the period reports.
C16_MissingAnchorHasNoPeriod ==
    (AllKept /\ raises = {}) =>
        /\ \A p \in SeqToSet(Processes) : \A i \in 1..Len(results[p].rows) :
              RawDay(input_df.rows[i][AnchorColumn[p]]) = NaT
                 => results[p].rows[i]["Week"] = NaT /\ results[p].rows[i]["Month"] = NaT
        /\ \A pair \in Pairs :
              SumPersonnel(results["Personnel"].rows, pair[1], pair[2]) = PairTotal(pair[1], pair[2])
        /\ NoPeriodForMissingAnchor("Week", "PersonnelWeekly", "Weekly")
        /\ NoPeriodForMissingAnchor("Month", "PersonnelMonthly", "Monthly")

\* two Key records of 10 for the name a, one of them without Indate: 20 in the
\* personnel table, 10 in the one week of the personnel weekly table
C16_Witness ==
    /\ AllKept
    /\ Len(results["Key"].rows) = 2
    /\ results["Key"].rows[1]["Indate"] = NaT
    /\ results["Key"].rows[2]["Indate"] = 2
    /\ \E i \in 1..Len(results["Personnel"].rows) :
          results["Personnel"].rows[i].Name = "a" /\ results["Personnel"].rows[i].Process = "Key"
          /\ results["Personnel"].rows[i].TotalRec = 20
    /\ SumPersonnel(results["PersonnelWeekly"].rows, "a", "Key") = 10
    /\ SumColumn(results["Weekly"], "Total Rec. Key", Len(results["Weekly"].rows)) = 10

=============================================================================
